---- MODULE Spec2Model ----
(***************************************************************************)
(* A model of fanbot.py: the Telegram bot that keeps a manual fan speed    *)
(* asserted on a Dell iDRAC through ipmitool.                              *)
(*                                                                         *)
(* Three coroutines share the FanBot fields on one asyncio event loop:     *)
(*   - the update handler (cmd_start, cmd_status, cmd_set_speed, cmd_auto),*)
(*     one update at a time;                                               *)
(*   - the repeating job monitor_fans;                                     *)
(*   - the one-shot job _apply_default_speed.                              *)
(* Every `await asyncio.to_thread(...)` suspends its coroutine: the worker *)
(* thread then runs the ipmitool commands one by one while the other       *)
(* coroutines may run.  One action of the model is one run of a coroutine  *)
(* between two suspension points, or one ipmitool command of a worker      *)
(* thread.                                                                 *)
(***************************************************************************)
EXTENDS Integers, Sequences, FiniteSets, TLC

(***************************************************************************)
(* Bounds of the model.                                                    *)
(***************************************************************************)
\* time.monotonic() is read as an integer in 1..MaxTime
MaxTime == 2
\* the warnings counted since the last successful assertion saturate here
MaxWarn == 2

(***************************************************************************)
(* Optional[T]: None is the empty tuple, a value x is <<x>>.               *)
(***************************************************************************)
None == <<>>
Some(x) == <<x>>
IsNone(o) == o = <<>>
Val(o) == o[1]

(***************************************************************************)
(* Strings the code parses or formats are sequences of one-character       *)
(* strings.                                                                *)
(***************************************************************************)
HexDigits == <<"0", "1", "2", "3", "4", "5", "6", "7", "8", "9", "A", "B", "C", "D", "E", "F">>
LowerHexDigits == <<"0", "1", "2", "3", "4", "5", "6", "7", "8", "9", "a", "b", "c", "d", "e", "f">>
DecDigits == SubSeq(HexDigits, 1, 10)

IndexOf(seq, c) == CHOOSE i \in 1..Len(seq) : seq[i] = c
IsDecDigit(c) == \E i \in 1..Len(DecDigits) : DecDigits[i] = c
IsHexDigit(c) == \E i \in 1..Len(HexDigits) : HexDigits[i] = c

\* str.rstrip(chars)
RECURSIVE rstrip(_, _)
rstrip(s, chars) ==
    IF s # <<>> /\ s[Len(s)] \in chars
    THEN rstrip(SubSeq(s, 1, Len(s) - 1), chars)
    ELSE s

RECURSIVE DecValue(_)
DecValue(s) ==
    IF s = <<>> THEN 0
    ELSE DecValue(SubSeq(s, 1, Len(s) - 1)) * 10 + (IndexOf(DecDigits, s[Len(s)]) - 1)

\* int(text): an optional sign and at least one decimal digit, ValueError (None) otherwise
int(s) ==
    LET signed == s # <<>> /\ s[1] \in {"+", "-"}
        digits == IF signed THEN Tail(s) ELSE s
    IN  IF digits = <<>> \/ \E i \in 1..Len(digits) : ~IsDecDigit(digits[i])
        THEN None
        ELSE Some(IF signed /\ s[1] = "-" THEN 0 - DecValue(digits) ELSE DecValue(digits))

\* format(value, "X") for value >= 0
RECURSIVE UpperHex(_)
UpperHex(n) ==
    IF n < 16 THEN <<HexDigits[n + 1]>>
    ELSE UpperHex(n \div 16) \o <<HexDigits[(n % 16) + 1]>>

\* f"0x{value:02X}": at least two hex digits, zero padded
HexByte(value) ==
    LET h == UpperHex(value)
    IN  <<"0", "x">> \o (IF Len(h) < 2 THEN <<"0">> \o h ELSE h)

\* the value of one hex digit, either case (ipmitool reads its arguments with strtol)
HexDigitValue(c) ==
    IF IsHexDigit(c) THEN IndexOf(HexDigits, c) - 1 ELSE IndexOf(LowerHexDigits, c) - 1

RECURSIVE HexValue(_)
HexValue(s) ==
    IF s = <<>> THEN 0
    ELSE HexValue(SubSeq(s, 1, Len(s) - 1)) * 16 + HexDigitValue(s[Len(s)])

\* the number a "0x.." argument of `ipmitool raw` stands for
ByteOf(arg) == HexValue(SubSeq(arg, 3, Len(arg)))

(***************************************************************************)
(* Inputs.                                                                 *)
(***************************************************************************)
Chats == {1}

\* context.args[0] of /set_speed: "0", "100%", "101", "150", "-1", "abc"
ArgSamples ==
    { <<"0">>, <<"1", "0", "0", "%">>, <<"1", "0", "1">>, <<"1", "5", "0">>,
      <<"-", "1">>, <<"a", "b", "c">> }

\* the values DEFAULT_FAN_PERCENT takes: unset, "", "100", "150", "abc"
DefaultEnvSamples ==
    { None, Some(<<>>), Some(<<"1", "0", "0">>), Some(<<"1", "5", "0">>), Some(<<"a", "b", "c">>) }

\* the values AUTHORIZED_CHAT_IDS parses to: unset, or another chat alone
AuthorizedSamples == { None, Some({2}) }

\* the rows of `ipmitool sdr list full` after FAN_LINE_RE: a matched row is
\* <<name, value>>, a row the pattern rejects is <<>>
SdrSamples ==
    { << <<>> >>,
      << <<>>, <<"FAN1", 3250>> >> }

\* the outputs of the polling specification: FAN1 at 3000, 3150, 3200 and 3250
\* RPM, FAN1 with a second fan, and an output without a fan row
PollSdrSamples ==
    { << <<>> >>,
      << <<"FAN1", 3000>> >>,
      << <<"FAN1", 3150>> >>,
      << <<>>, <<"FAN1", 3200>> >>,
      << <<"FAN1", 3250>> >>,
      << <<"FAN1", 3000>>, <<"FAN2", 1000>> >> }

\* the values FAN_NOTIFY_DELTA takes in the polling specification
NotifyDeltaSamples == {0, 50, 200}

(***************************************************************************)
(* BotConfig                                                               *)
(***************************************************************************)
\* the reapply interval of the configuration, in clock units
reapply_interval == 1
\* notify_delta, the default of FAN_NOTIFY_DELTA
notify_delta == 200

\* BotConfig.from_env, the DEFAULT_FAN_PERCENT part: [error, default_percent]
from_env_default(default_percent_raw) ==
    IF IsNone(default_percent_raw) \/ Val(default_percent_raw) = <<>>
    THEN [error |-> FALSE, default_percent |-> None]
    ELSE LET value == int(Val(default_percent_raw))
         IN  IF IsNone(value) THEN [error |-> TRUE, default_percent |-> None]
             ELSE IF ~(0 <= Val(value) /\ Val(value) <= 100)
                  THEN [error |-> TRUE, default_percent |-> None]
                  ELSE [error |-> FALSE, default_percent |-> value]

\* the configurations from_env returns (it raises RuntimeError for the others)
BotConfig ==
    { [default_manual_percent |-> from_env_default(raw).default_percent,
       authorized_chat_ids |-> auth,
       notify_delta |-> notify_delta] :
         raw \in { r \in DefaultEnvSamples : ~from_env_default(r).error },
         auth \in AuthorizedSamples }

(***************************************************************************)
(* State                                                                   *)
(***************************************************************************)
VARIABLES
    config,           \* FanBot.config
    sensors,          \* the outputs `ipmitool sdr list full` may print in this run
    manual_speed,     \* FanBot.manual_speed: Optional[int]
    last_speed_push,  \* FanBot.last_speed_push: Optional[float]
    failed_reapply,   \* FanBot.failed_reapply
    subscribers,      \* FanBot.subscribers
    last_readings,    \* FanBot.last_readings
    pc,               \* where each coroutine (or its worker thread) stands
    local,            \* per coroutine: its chat, the percent handed to the thread, `now`
    exc,              \* per coroutine: whether its to_thread call raised IPMIError
    now,              \* time.monotonic()
    reachable,        \* whether the iDRAC answers ipmitool
    ctl,              \* the iDRAC: whether static (manual) fan control is enabled
    wire,             \* the ipmitool raw command run in the last step
    reply,            \* the chat message sent to the caller in the last step
    bcast,            \* the broadcast delivered in the last step
    logged,           \* the log line written in the last step
    warns,            \* "refresh failed" warnings logged since a coroutine last went on
                      \* after a successful apply_manual_speed
    ready             \* the event loop's ready queue: the coroutines whose to_thread
                      \* call has returned, in the order the calls returned

vars == <<config, sensors, manual_speed, last_speed_push, failed_reapply, subscribers, last_readings,
          pc, local, exc, now, reachable, ctl, wire, reply, bcast, logged,
          warns, ready>>

bot == <<manual_speed, last_speed_push, failed_reapply, subscribers, last_readings>>
env == <<now, reachable>>

Procs == {"update", "monitor", "default"}

NoBcast == [text |-> "", percent |-> None, changed |-> <<>>, to |-> {}]
NoReply == <<>>
NoLocal == [chat |-> None, percent |-> None, now |-> 0]

NoCmd == [args |-> <<>>, ok |-> FALSE, by |-> ""]
NoReadings == <<>>

Init ==
    /\ config \in BotConfig
    /\ sensors = SdrSamples
    /\ manual_speed = None
    /\ last_speed_push = None
    /\ failed_reapply = FALSE
    /\ subscribers = {}
    /\ last_readings = NoReadings
    /\ pc = [p \in Procs |-> IF p = "default" THEN "start" ELSE "idle"]
    /\ local = [p \in Procs |-> NoLocal]
    /\ exc = [p \in Procs |-> FALSE]
    /\ now = 1
    /\ reachable \in BOOLEAN
    /\ ctl = [static |-> FALSE]
    /\ wire = NoCmd
    /\ reply = NoReply
    /\ bcast = NoBcast
    /\ logged = ""
    /\ warns = 0
    /\ ready = <<>>

\* what a step that runs no command, sends nothing and logs nothing leaves behind
Silent == wire' = NoCmd /\ reply' = NoReply /\ bcast' = NoBcast /\ logged' = ""

(***************************************************************************)
(* The environment: the clock, the network, the iDRAC itself.              *)
(***************************************************************************)
\* The event loop runs its ready callbacks in the order they became ready: while
\* the resumption of a coroutine whose to_thread call has returned is waiting, no
\* handler or job that becomes ready later starts, and the clock (one unit is a
\* reapply interval) does not move on.
loop_free == ready = <<>>

\* the worker thread of coroutine p returns: the coroutine becomes ready
Wake(p) == ready' = Append(ready, p)

\* the event loop resumes coroutine p: it is the first in the ready queue
Resumed(p) == ready # <<>> /\ Head(ready) = p /\ ready' = Tail(ready)

\* a time read from the clock, seen one unit later from the end of the window
Earlier(t) == IF t > 1 THEN t - 1 ELSE t

\* Time passes.  The model keeps the clock in the window 1..MaxTime: at the end of
\* the window the clock is re-based, every time read from it moves one unit
\* back and a time at the start of the window stays there.  An age
\* `now - last_speed_push` is exact up to MaxTime - 1, which is at least
\* reapply_interval, and saturates there.
Advance ==
    /\ loop_free
    /\ IF now < MaxTime
       THEN /\ now' = now + 1
            /\ UNCHANGED <<last_speed_push, local>>
       ELSE /\ now' = now
            /\ last_speed_push' = IF IsNone(last_speed_push) THEN None
                                  ELSE Some(Earlier(Val(last_speed_push)))
            /\ local' = [p \in Procs |-> [local[p] EXCEPT !.now = Earlier(@)]]
    /\ Silent
    /\ UNCHANGED <<config, sensors, manual_speed, failed_reapply, subscribers, last_readings,
                   pc, exc, reachable, ctl, warns, ready>>

\* the iDRAC goes away (reboot, network) or comes back
Reachability ==
    /\ reachable' = ~reachable
    /\ Silent
    /\ UNCHANGED <<config, sensors, bot, pc, local, exc, now, ctl, warns, ready>>

\* the iDRAC resets fan control on its own: the manual override is lost
ControllerReset ==
    /\ ctl.static
    /\ ctl' = [ctl EXCEPT !.static = FALSE]
    /\ Silent
    /\ UNCHANGED <<config, sensors, bot, pc, local, exc, now, reachable, warns, ready>>

(***************************************************************************)
(* IPMIClient                                                              *)
(***************************************************************************)
Byte30 == <<"0", "x", "3", "0">>
Byte00 == <<"0", "x", "0", "0">>
Byte01 == <<"0", "x", "0", "1">>
Byte02 == <<"0", "x", "0", "2">>
ByteFF == <<"0", "x", "f", "f">>

enable_static_fan_control_args == <<Byte30, Byte30, Byte01, Byte00>>
disable_static_fan_control_args == <<Byte30, Byte30, Byte01, Byte01>>

\* a duty cycle scaled to the byte range instead of clamped to the percent range
clamp_scaled(percent) == (percent * 255) \div 100

\* set_manual_fan_speed: value = max(0, min(100, percent))
clamp(percent) ==
    LET low == IF percent < 100 THEN percent ELSE 100
    IN  IF low > 0 THEN low ELSE 0

set_manual_fan_speed_args(percent) ==
    <<Byte30, Byte30, Byte02, ByteFF, HexByte(clamp(percent))>>

IsSetDuty(args) == Len(args) = 5 /\ ByteOf(args[3]) = 2
IsEnable(args) == Len(args) = 4 /\ ByteOf(args[3]) = 1 /\ ByteOf(args[4]) = 0
IsDisable(args) == Len(args) = 4 /\ ByteOf(args[3]) = 1 /\ ByteOf(args[4]) = 1

\* what the iDRAC does with an accepted raw command
Controller(c, args) ==
    IF IsEnable(args) THEN [c EXCEPT !.static = TRUE]
    ELSE IF IsDisable(args) THEN [c EXCEPT !.static = FALSE]
    ELSE c

\* IPMIClient.raw in the worker thread of coroutine p: ipmitool exits non-zero
\* or times out (IPMIError) exactly when the iDRAC does not answer
raw(p, args) ==
    /\ wire' = [args |-> args, ok |-> reachable, by |-> p]
    /\ ctl' = IF reachable THEN Controller(ctl, args) ELSE ctl
    /\ reply' = NoReply /\ bcast' = NoBcast /\ logged' = ""

\* apply_manual_speed going on to the second command whatever the first one did
enable_static_fan_control_unchecked(p) ==
    /\ pc[p] = "enable"
    /\ raw(p, enable_static_fan_control_args)
    /\ pc' = [pc EXCEPT ![p] = "set"]
    /\ exc' = [exc EXCEPT ![p] = FALSE]
    /\ UNCHANGED <<config, sensors, bot, local, env, warns, ready>>

\* apply_manual_speed, first command
enable_static_fan_control(p) ==
    /\ pc[p] = "enable"
    /\ raw(p, enable_static_fan_control_args)
    /\ pc' = [pc EXCEPT ![p] = IF reachable THEN "set" ELSE "after_apply"]
    /\ exc' = [exc EXCEPT ![p] = ~reachable]
    /\ IF reachable THEN UNCHANGED ready ELSE Wake(p)
    /\ UNCHANGED <<config, sensors, bot, local, env, warns>>

\* apply_manual_speed, second command
set_manual_fan_speed(p) ==
    /\ pc[p] = "set"
    /\ raw(p, set_manual_fan_speed_args(Val(local[p].percent)))
    /\ pc' = [pc EXCEPT ![p] = "after_apply"]
    /\ exc' = [exc EXCEPT ![p] = ~reachable]
    /\ Wake(p)
    /\ UNCHANGED <<config, sensors, bot, local, env, warns>>

disable_static_fan_control(p) ==
    /\ pc[p] = "disable"
    /\ raw(p, disable_static_fan_control_args)
    /\ pc' = [pc EXCEPT ![p] = "after_disable"]
    /\ exc' = [exc EXCEPT ![p] = ~reachable]
    /\ Wake(p)
    /\ UNCHANGED <<config, sensors, bot, local, env, warns>>

\* the loop of get_fan_readings over the matched rows: a later row replaces an
\* earlier one of the same name
RECURSIVE parse_rows(_)
parse_rows(rows) ==
    IF rows = <<>> THEN NoReadings
    ELSE LET before == parse_rows(SubSeq(rows, 1, Len(rows) - 1))
             row == rows[Len(rows)]
         IN  IF row = <<>> THEN before
             ELSE [n \in DOMAIN before \cup {row[1]} |->
                      IF n = row[1] THEN row[2] ELSE before[n]]

\* get_fan_readings on the rows `output`: [error, readings]
get_fan_readings(output) ==
    LET readings == parse_rows(output)
    IN  IF ~reachable \/ DOMAIN readings = {}
        THEN [error |-> TRUE, readings |-> NoReadings]
        ELSE [error |-> FALSE, readings |-> readings]

(***************************************************************************)
(* FanBot: the update handlers                                             *)
(***************************************************************************)
\* register_handlers schedules _apply_default_speed with when=0: it runs up to its
\* first suspension when the job queue starts, before an update is handled and
\* before monitor_fans' first tick gets to act on a policy
started == pc["default"] # "start"

_is_authorized(chat_id) ==
    IF IsNone(config.authorized_chat_ids) THEN TRUE
    ELSE chat_id \in Val(config.authorized_chat_ids)

\* the handler returns: its locals are gone
Return(p) ==
    /\ pc' = [pc EXCEPT ![p] = IF p = "default" THEN "done" ELSE "idle"]
    /\ local' = [local EXCEPT ![p] = NoLocal]
    /\ exc' = [exc EXCEPT ![p] = FALSE]

\* cmd_start (/start and /help)
cmd_start(chat) ==
    /\ pc["update"] = "idle" /\ started /\ loop_free
    /\ IF ~_is_authorized(chat)
       THEN /\ reply' = <<"You are not authorized to control this bot.">>
            /\ UNCHANGED subscribers
       ELSE /\ subscribers' = subscribers \cup {chat}
            /\ reply' = <<"Welcome!">>
    /\ wire' = NoCmd /\ bcast' = NoBcast /\ logged' = ""
    /\ UNCHANGED <<config, sensors, manual_speed, last_speed_push, failed_reapply, last_readings,
                   pc, local, exc, env, ctl, warns, ready>>

\* _format_readings
_format_readings(readings) ==
    <<"Fan readings:", readings>>
      \o (IF ~IsNone(manual_speed)
          THEN <<"Manual override locked at", Val(manual_speed), HexByte(Val(manual_speed))>>
          ELSE <<>>)

\* cmd_status (/status) up to `await asyncio.to_thread(self.ipmi.get_fan_readings)`
cmd_status(chat) ==
    /\ pc["update"] = "idle" /\ started /\ loop_free
    /\ IF ~_is_authorized(chat)
       THEN UNCHANGED <<pc, local>>
       ELSE /\ pc' = [pc EXCEPT !["update"] = "sdr"]
            /\ local' = [local EXCEPT !["update"].chat = Some(chat)]
    /\ Silent
    /\ UNCHANGED <<config, sensors, bot, exc, env, ctl, warns, ready>>

\* a status query that subscribes the chat it answers
cmd_status_resume_subscribing ==
    /\ pc["update"] = "sdr"
    /\ \E output \in sensors :
         LET got == get_fan_readings(output)
         IN  reply' = IF got.error THEN <<"Failed to read fans">>
                      ELSE _format_readings(got.readings)
    /\ subscribers' = subscribers \cup {Val(local["update"].chat)}
    /\ wire' = NoCmd /\ bcast' = NoBcast /\ logged' = ""
    /\ Return("update")
    /\ UNCHANGED <<config, sensors, manual_speed, last_speed_push, failed_reapply,
                   last_readings, env, ctl, warns, ready>>

\* cmd_status from the thread's get_fan_readings on
cmd_status_resume ==
    /\ pc["update"] = "sdr"
    /\ \E output \in sensors :
         LET got == get_fan_readings(output)
         IN  reply' = IF got.error THEN <<"Failed to read fans">>
                      ELSE _format_readings(got.readings)
    /\ wire' = NoCmd /\ bcast' = NoBcast /\ logged' = ""
    /\ Return("update")
    /\ UNCHANGED <<config, sensors, bot, env, ctl, warns, ready>>

\* the range test without its upper bound
valid_percent_no_upper(percent) == 0 <= percent

\* cmd_set_speed: `0 <= percent <= 100`
valid_percent(percent) == 0 <= percent /\ percent <= 100

\* cmd_set_speed (/set_speed and /setspeed) with context.args = args, up to
\* `await asyncio.to_thread(self.ipmi.apply_manual_speed, percent)`
cmd_set_speed(chat, args) ==
    /\ pc["update"] = "idle" /\ started /\ loop_free
    /\ IF ~_is_authorized(chat)
       THEN reply' = NoReply /\ UNCHANGED <<pc, local>>
       ELSE IF args = <<>>
       THEN reply' = <<"Usage: /set_speed <0-100>">> /\ UNCHANGED <<pc, local>>
       ELSE LET value == rstrip(args[1], {"%"})
                percent == int(value)
            IN  IF IsNone(percent)
                THEN /\ reply' = <<"Please provide an integer fan percent between 0 and 100.">>
                     /\ UNCHANGED <<pc, local>>
                ELSE IF ~valid_percent(Val(percent))
                THEN /\ reply' = <<"Fan percent must be between 0 and 100.">>
                     /\ UNCHANGED <<pc, local>>
                ELSE /\ reply' = NoReply
                     /\ pc' = [pc EXCEPT !["update"] = "enable"]
                     /\ local' = [local EXCEPT !["update"].chat = Some(chat),
                                               !["update"].percent = percent]
    /\ wire' = NoCmd /\ bcast' = NoBcast /\ logged' = ""
    /\ UNCHANGED <<config, sensors, bot, exc, env, ctl, warns, ready>>

\* cmd_set_speed after the thread
cmd_set_speed_resume ==
    /\ pc["update"] = "after_apply"
    /\ Resumed("update")
    /\ IF exc["update"]
       THEN /\ reply' = <<"Failed to set speed">>
            /\ UNCHANGED <<manual_speed, last_speed_push, failed_reapply, subscribers, warns>>
       ELSE /\ manual_speed' = local["update"].percent
            /\ last_speed_push' = Some(now)
            /\ failed_reapply' = FALSE
            /\ warns' = 0
            /\ subscribers' = subscribers \cup {Val(local["update"].chat)}
            /\ reply' = <<"Manual fan speed set to", Val(local["update"].percent),
                          HexByte(Val(local["update"].percent))>>
    /\ wire' = NoCmd /\ bcast' = NoBcast /\ logged' = ""
    /\ Return("update")
    /\ UNCHANGED <<config, sensors, last_readings, env, ctl>>

\* /auto that runs no command when the policy is already auto
cmd_auto_only_from_manual(chat) ==
    /\ pc["update"] = "idle" /\ started /\ loop_free
    /\ IF ~_is_authorized(chat) \/ IsNone(manual_speed)
       THEN UNCHANGED <<pc, local>>
       ELSE /\ pc' = [pc EXCEPT !["update"] = "disable"]
            /\ local' = [local EXCEPT !["update"].chat = Some(chat)]
    /\ Silent
    /\ UNCHANGED <<config, sensors, bot, exc, env, ctl, warns, ready>>

\* cmd_auto (/auto) up to `await asyncio.to_thread(self.ipmi.disable_static_fan_control)`
cmd_auto(chat) ==
    /\ pc["update"] = "idle" /\ started /\ loop_free
    /\ IF ~_is_authorized(chat)
       THEN UNCHANGED <<pc, local>>
       ELSE /\ pc' = [pc EXCEPT !["update"] = "disable"]
            /\ local' = [local EXCEPT !["update"].chat = Some(chat)]
    /\ Silent
    /\ UNCHANGED <<config, sensors, bot, exc, env, ctl, warns, ready>>

\* cmd_auto after the thread
cmd_auto_resume ==
    /\ pc["update"] = "after_disable"
    /\ Resumed("update")
    /\ IF exc["update"]
       THEN /\ reply' = <<"Failed to return to auto control">>
            /\ UNCHANGED <<manual_speed, last_speed_push>>
       ELSE /\ manual_speed' = None
            /\ last_speed_push' = None
            /\ reply' = <<"Fan control returned to iDRAC automatic mode.">>
    /\ wire' = NoCmd /\ bcast' = NoBcast /\ logged' = ""
    /\ Return("update")
    /\ UNCHANGED <<config, sensors, failed_reapply, subscribers, last_readings, env, ctl, warns>>

(***************************************************************************)
(* FanBot: the jobs                                                        *)
(***************************************************************************)
\* _apply_default_speed up to `await asyncio.to_thread(self.ipmi.apply_manual_speed, percent)`
_apply_default_speed ==
    /\ pc["default"] = "start"
    /\ IF IsNone(config.default_manual_percent)
       THEN Return("default")
       ELSE /\ pc' = [pc EXCEPT !["default"] = "enable"]
            /\ local' = [local EXCEPT !["default"].percent = config.default_manual_percent]
            /\ UNCHANGED exc
    /\ Silent
    /\ UNCHANGED <<config, sensors, bot, env, ctl, warns, ready>>

\* _apply_default_speed after the thread
_apply_default_speed_resume ==
    /\ pc["default"] = "after_apply"
    /\ Resumed("default")
    /\ IF exc["default"]
       THEN /\ logged' = "Failed to apply default fan speed"
            /\ UNCHANGED <<manual_speed, last_speed_push, failed_reapply, warns>>
       ELSE /\ manual_speed' = local["default"].percent
            /\ last_speed_push' = Some(now)
            /\ failed_reapply' = FALSE
            /\ warns' = 0
            /\ logged' = "Default manual fan speed applied."
    /\ wire' = NoCmd /\ reply' = NoReply /\ bcast' = NoBcast
    /\ Return("default")
    /\ UNCHANGED <<config, sensors, subscribers, last_readings, env, ctl>>

\* the truth value of an Optional[float]: None and 0.0 are false
truthy(o) == ~IsNone(o) /\ Val(o) # 0

\* the interval test with <= for <
reapply_due_off_by_one(t) ==
    ~(truthy(last_speed_push) /\ t - Val(last_speed_push) <= reapply_interval)

\* _reapply_manual_speed_if_needed: the tick does not return at the interval test
reapply_due(t) ==
    ~(truthy(last_speed_push) /\ t - Val(last_speed_push) < reapply_interval)

\* a tick that re-asserts whatever the recorded policy is
skips_reapply_ignoring_policy(t) == ~reapply_due(t)

\* a tick that gives up re-asserting once an attempt has failed
skips_reapply_after_failure(t) ==
    IsNone(manual_speed) \/ failed_reapply \/ ~reapply_due(t)

\* _reapply_manual_speed_if_needed returns before apply_manual_speed: the policy
\* is auto (`self.manual_speed is None`) or the last assertion is young
skips_reapply(t) == IsNone(manual_speed) \/ ~reapply_due(t)

\* monitor_fans from the start of a tick to the first suspension:
\* _reapply_manual_speed_if_needed either returns (then get_fan_readings is
\* called) or calls apply_manual_speed with the recorded percent
monitor_fans ==
    /\ pc["monitor"] = "idle" /\ started /\ loop_free
    /\ IF skips_reapply(now)
       THEN /\ pc' = [pc EXCEPT !["monitor"] = "sdr"]
            /\ UNCHANGED local
       ELSE /\ pc' = [pc EXCEPT !["monitor"] = "enable"]
            /\ local' = [local EXCEPT !["monitor"].percent = manual_speed,
                                      !["monitor"].now = now]
    /\ Silent
    /\ UNCHANGED <<config, sensors, bot, exc, env, ctl, warns, ready>>

\* the warning logged on every failed refresh
refresh_warning_always == "Manual speed refresh failed"

\* the recovery announced after every successful refresh
announce_recovery_always == TRUE

\* `if self.failed_reapply:` after a successful refresh
announce_recovery == failed_reapply

\* the warning of a failed refresh is logged unless the flag is already set
refresh_warning == IF ~failed_reapply THEN "Manual speed refresh failed" ELSE ""

\* _reapply_manual_speed_if_needed after the thread.  With subscribers and the flag
\* set, _broadcast starts sending and the coroutine is suspended until the last
\* send returns; with no subscriber _broadcast returns at once
_reapply_manual_speed_if_needed ==
    /\ pc["monitor"] = "after_apply"
    /\ Resumed("monitor")
    /\ IF exc["monitor"]
       THEN /\ logged' = refresh_warning
            /\ warns' = IF refresh_warning # "" /\ warns < MaxWarn THEN warns + 1 ELSE warns
            /\ failed_reapply' = TRUE
            /\ pc' = [pc EXCEPT !["monitor"] = "sdr"]
            /\ local' = [local EXCEPT !["monitor"] = NoLocal]
            /\ bcast' = NoBcast
            /\ UNCHANGED last_speed_push
       ELSE /\ last_speed_push' = Some(local["monitor"].now)
            /\ logged' = ""
            /\ warns' = 0
            /\ local' = [local EXCEPT !["monitor"] = NoLocal]
            /\ IF announce_recovery /\ subscribers # {}
               THEN /\ pc' = [pc EXCEPT !["monitor"] = "broadcast"]
                    /\ bcast' = [text |-> "Manual fan speed re-applied",
                                 percent |-> manual_speed,
                                 changed |-> NoReadings,
                                 to |-> subscribers]
                    /\ UNCHANGED failed_reapply
               ELSE /\ failed_reapply' = FALSE
                    /\ pc' = [pc EXCEPT !["monitor"] = "sdr"]
                    /\ bcast' = NoBcast
    /\ exc' = [exc EXCEPT !["monitor"] = FALSE]
    /\ wire' = NoCmd /\ reply' = NoReply
    /\ UNCHANGED <<config, sensors, manual_speed, subscribers, last_readings, env, ctl>>

\* the last send of the recovery broadcast has returned:
\* _reapply_manual_speed_if_needed clears the flag and ends
_reapply_broadcast_done ==
    /\ pc["monitor"] = "broadcast"
    /\ failed_reapply' = FALSE
    /\ pc' = [pc EXCEPT !["monitor"] = "sdr"]
    /\ Silent
    /\ UNCHANGED <<config, sensors, manual_speed, last_speed_push, subscribers, last_readings,
                   local, exc, env, ctl, warns, ready>>

Abs(x) == IF x < 0 THEN 0 - x ELSE x

\* the threshold test with > for >=
exceeds_strictly(value, previous, threshold) == Abs(value - previous) > threshold

\* `abs(value - previous) >= threshold`
exceeds(value, previous, threshold) == Abs(value - previous) >= threshold

\* the loop of _diff_readings over the items of `new` still to visit
RECURSIVE diff_loop(_, _, _, _, _)
diff_loop(old, new, threshold, names, changed) ==
    IF names = {} THEN changed
    ELSE LET name == CHOOSE n \in names : TRUE
             value == new[name]
             previous == IF name \in DOMAIN old THEN Some(old[name]) ELSE None
             report == IF IsNone(previous) THEN TRUE
                       ELSE exceeds(value, Val(previous), threshold)
             next == IF report
                     THEN [n \in DOMAIN changed \cup {name} |->
                             IF n = name THEN value ELSE changed[n]]
                     ELSE changed
         IN  diff_loop(old, new, threshold, names \ {name}, next)

\* _diff_readings
_diff_readings(old, new, threshold) ==
    diff_loop(old, new, threshold, DOMAIN new, NoReadings)

\* the always-diff poll: no snapshot is treated as the first
first_snapshot_never == FALSE

\* monitor_fans: `if not self.last_readings`
first_snapshot == DOMAIN last_readings = {}

\* monitor_fans from the thread's get_fan_readings on
monitor_fans_resume ==
    /\ pc["monitor"] = "sdr"
    /\ \E output \in sensors :
         LET got == get_fan_readings(output)
             readings == got.readings
         IN  IF got.error
             THEN /\ logged' = "Fan poll failed"
                  /\ bcast' = NoBcast
                  /\ UNCHANGED last_readings
             ELSE IF first_snapshot
             THEN /\ last_readings' = readings
                  /\ logged' = ""
                  /\ bcast' = NoBcast
             ELSE LET changed == _diff_readings(last_readings, readings, config.notify_delta)
                  IN  /\ last_readings' = readings
                      /\ logged' = ""
                      /\ bcast' = IF DOMAIN changed # {} /\ subscribers # {}
                                  THEN [text |-> "Fan speed change detected:",
                                        percent |-> None,
                                        changed |-> changed,
                                        to |-> subscribers]
                                  ELSE NoBcast
    /\ wire' = NoCmd /\ reply' = NoReply
    /\ Return("monitor")
    /\ UNCHANGED <<config, sensors, manual_speed, last_speed_push, failed_reapply, subscribers,
                   env, ctl, warns, ready>>

(***************************************************************************)
(* The specification                                                       *)
(***************************************************************************)
Thread ==
    \E p \in Procs :
        \/ enable_static_fan_control(p)
        \/ set_manual_fan_speed(p)
        \/ disable_static_fan_control(p)

Next ==
    \/ Advance
    \/ Reachability
    \/ ControllerReset
    \/ Thread
    \/ \E chat \in Chats : cmd_start(chat)
    \/ \E chat \in Chats : cmd_status(chat)
    \/ cmd_status_resume
    \/ \E chat \in Chats, args \in {<<>>} \cup { <<a>> : a \in ArgSamples } : cmd_set_speed(chat, args)
    \/ cmd_set_speed_resume
    \/ \E chat \in Chats : cmd_auto(chat)
    \/ cmd_auto_resume
    \/ _apply_default_speed
    \/ _apply_default_speed_resume
    \/ monitor_fans
    \/ _reapply_manual_speed_if_needed
    \/ _reapply_broadcast_done
    \/ monitor_fans_resume

Spec == Init /\ [][Next]_vars

\* What the scheduling guarantees.  The job queue starts a tick of monitor_fans
\* every poll_interval and the clock goes on, however busy the event loop is; a
\* worker thread runs its ipmitool command, which ends within the timeout; the
\* event loop resumes a coroutine that is first in its ready queue; a broadcast
\* and a fan poll end.
Fairness ==
    /\ SF_vars(monitor_fans)
    /\ SF_vars(Advance)
    /\ \A p \in Procs : WF_vars(\/ enable_static_fan_control(p)
                                 \/ set_manual_fan_speed(p)
                                 \/ disable_static_fan_control(p))
    /\ WF_vars(_apply_default_speed)
    /\ WF_vars(_apply_default_speed_resume)
    /\ WF_vars(cmd_status_resume)
    /\ WF_vars(cmd_set_speed_resume)
    /\ WF_vars(cmd_auto_resume)
    /\ WF_vars(_reapply_manual_speed_if_needed)
    /\ WF_vars(_reapply_broadcast_done)
    /\ WF_vars(monitor_fans_resume)

FairSpec == Spec /\ Fairness

(***************************************************************************)
(* The restart specification: the process may be stopped and started again  *)
(* in the same environment.                                                 *)
(***************************************************************************)
\* main() again: from_env reads the same environment and FanBot.__init__ builds
\* the fields anew; the coroutines and worker threads of the old process are gone,
\* the iDRAC and the clock are what they were
Restart ==
    /\ manual_speed' = None
    /\ last_speed_push' = None
    /\ failed_reapply' = FALSE
    /\ subscribers' = {}
    /\ last_readings' = NoReadings
    /\ pc' = [p \in Procs |-> IF p = "default" THEN "start" ELSE "idle"]
    /\ local' = [p \in Procs |-> NoLocal]
    /\ exc' = [p \in Procs |-> FALSE]
    /\ ready' = <<>>
    /\ warns' = 0
    /\ Silent
    /\ UNCHANGED <<config, sensors, now, reachable, ctl>>

RestartNext == Next \/ Restart

RestartSpec == Init /\ [][RestartNext]_vars

(***************************************************************************)
(* The polling specification: monitor_fans under policy auto, with no       *)
(* default percent, over a richer set of sensor outputs and thresholds.     *)
(***************************************************************************)
PollInit ==
    /\ config \in { [default_manual_percent |-> None,
                      authorized_chat_ids |-> None,
                      notify_delta |-> d] : d \in NotifyDeltaSamples }
    /\ sensors = PollSdrSamples
    /\ manual_speed = None
    /\ last_speed_push = None
    /\ failed_reapply = FALSE
    /\ subscribers = {}
    /\ last_readings = NoReadings
    /\ pc = [p \in Procs |-> IF p = "default" THEN "start" ELSE "idle"]
    /\ local = [p \in Procs |-> NoLocal]
    /\ exc = [p \in Procs |-> FALSE]
    /\ now = 1
    /\ reachable \in BOOLEAN
    /\ ctl = [static |-> FALSE]
    /\ wire = NoCmd
    /\ reply = NoReply
    /\ bcast = NoBcast
    /\ logged = ""
    /\ warns = 0
    /\ ready = <<>>

PollNext ==
    \/ Reachability
    \/ \E chat \in Chats : cmd_start(chat)
    \/ _apply_default_speed
    \/ monitor_fans
    \/ monitor_fans_resume

PollSpec == PollInit /\ [][PollNext]_vars

(***************************************************************************)
(* Properties                                                              *)
(***************************************************************************)
RangeReply == <<"Fan percent must be between 0 and 100.">>
RecoveredText == "Manual fan speed re-applied"
RefreshWarning == "Manual speed refresh failed"

\* a coroutine leaves the point p was at
Leaves(p, at) == pc[p] = at /\ pc'[p] # at

\* C1: every set-duty-cycle command put on the wire, by cmd_set_speed, by the
\* startup default or by the periodic re-assertion, carries a percent in 0..100
C1_DutyInRange ==
    IsSetDuty(wire.args) => ByteOf(wire.args[5]) \in 0..100

\* the periodic re-assertion has put "set duty cycle 100" on the wire
C1_Witness ==
    IsSetDuty(wire.args) /\ wire.by = "monitor" /\ ByteOf(wire.args[5]) = 100

\* the /set_speed arguments "150", "101" and "-1"
OutOfRangeArgs == { <<"1", "5", "0">>, <<"1", "0", "1">>, <<"-", "1">> }

\* C2: /set_speed with a percent outside 0..100 from an authorized chat is answered
\* with the range message, runs no ipmitool command, starts no thread, and leaves
\* manual_speed, last_speed_push, failed_reapply and subscribers as they were
C2_OutOfRangeRejected ==
    [][\A chat \in Chats, a \in OutOfRangeArgs :
          (_is_authorized(chat) /\ cmd_set_speed(chat, <<a>>)) =>
              /\ reply' = RangeReply
              /\ wire' = NoCmd
              /\ pc' = pc
              /\ UNCHANGED <<manual_speed, last_speed_push, failed_reapply, subscribers>>]_vars

\* an out-of-range /set_speed has just been answered
C2_Witness == reply = RangeReply /\ ~IsNone(manual_speed)

\* C3: no fan-control command is put on the wire while the iDRAC is unreachable
C3_NoCommandWhileUnreachable ==
    wire.args # <<>> => reachable

\* C4: with a default percent configured, _apply_default_speed does not end before
\* the default is the recorded policy
C4_StartupEndsApplied ==
    [][(~IsNone(config.default_manual_percent) /\ pc["default"] # "done"
          /\ pc'["default"] = "done")
       => manual_speed' = config.default_manual_percent]_vars

\* C5: when cmd_set_speed ends after a valid percent P the recorded policy is P, and
\* when cmd_auto ends the recorded policy is auto, whether or not ipmitool succeeded
C5_DesiredStateRecorded ==
    [][/\ Leaves("update", "after_apply") => manual_speed' = local["update"].percent
       /\ Leaves("update", "after_disable") => manual_speed' = None]_vars

\* C6: a set-duty-cycle command of the periodic re-assertion that the iDRAC accepts
\* carries the recorded policy
C6_MonitorDeliversRecordedPolicy ==
    [][(wire'.by = "monitor" /\ wire'.ok /\ IsSetDuty(wire'.args))
       => manual_speed' = Some(ByteOf(wire'.args[5]))]_vars

\* the last successful assertion is at least reapply_interval old
C7_Old == IsNone(last_speed_push) \/ now - Val(last_speed_push) >= reapply_interval

\* C7: a tick with policy manual at P calls apply_manual_speed(P) when the last
\* assertion is old and runs no command when it is young; a tick calls it at most
\* once; its success sets last_speed_push to the time the tick read
C7_PeriodicReassertion ==
    /\ [][(Leaves("monitor", "idle") /\ ~IsNone(manual_speed)) =>
             IF C7_Old
             THEN /\ pc'["monitor"] = "enable"
                  /\ local'["monitor"].percent = manual_speed
                  /\ local'["monitor"].now = now
             ELSE pc'["monitor"] = "sdr" /\ wire' = NoCmd]_vars
    /\ [][pc["monitor"] \in {"set", "after_apply", "broadcast", "sdr"}
             => pc'["monitor"] # "enable"]_vars
    /\ [][(Leaves("monitor", "after_apply") /\ ~exc["monitor"])
             => last_speed_push' = Some(local["monitor"].now)]_vars

\* a tick at time 2 re-asserts the 100% recorded at time 1
C7_Witness ==
    /\ pc["monitor"] = "enable"
    /\ manual_speed = Some(100)
    /\ local["monitor"].percent = Some(100)
    /\ local["monitor"].now = 2
    /\ last_speed_push = Some(1)

\* C8: a tick with policy manual at P on an iDRAC that has lost the override calls
\* apply_manual_speed(P), however young the last assertion is
C8_DriftRepairedAtNextTick ==
    [][(Leaves("monitor", "idle") /\ ~IsNone(manual_speed) /\ ~ctl.static) =>
          /\ pc'["monitor"] = "enable"
          /\ local'["monitor"].percent = manual_speed]_vars

\* C9: a failed periodic re-assertion sets failed_reapply; the flag falls only in a
\* step that continues a coroutine after its apply_manual_speed succeeded; the
\* warning is logged only where the flag rises, so at most once between successes
C9_StickyDegraded ==
    /\ [][(Leaves("monitor", "after_apply") /\ exc["monitor"]) => failed_reapply']_vars
    /\ [][(failed_reapply /\ ~failed_reapply') =>
             \E p \in Procs : /\ pc[p] \in {"after_apply", "broadcast"}
                              /\ pc'[p] # pc[p]
                              /\ ~exc[p]]_vars
    /\ [][logged' = RefreshWarning => (~failed_reapply /\ failed_reapply')]_vars
    /\ [](warns <= 1)

\* a periodic re-assertion has failed again after the warning was logged
C9_Witness ==
    /\ pc["monitor"] = "after_apply"
    /\ exc["monitor"]
    /\ failed_reapply
    /\ warns = 1

\* C10 as claimed: whenever failed_reapply falls while there are subscribers, the
\* recovery broadcast is sent in that step (or is the broadcast whose last send
\* this step awaits), and no recovery broadcast is sent with the flag false
C10_EveryEpisodeEndsAnnounced ==
    /\ [][(failed_reapply /\ ~failed_reapply' /\ subscribers # {}) =>
             (bcast'.text = RecoveredText \/ pc["monitor"] = "broadcast")]_vars
    /\ [][bcast'.text = RecoveredText => failed_reapply]_vars

\* C10 as amended: the recovery broadcast belongs to the periodic re-assertion alone.
\* A re-assertion that succeeds with the flag set and a subscriber sends it to the
\* subscribers, naming the recorded percent, and the flag is false once its last
\* send has returned; it is sent in no other step; cmd_set_speed and
\* _apply_default_speed clear the flag without it
C10_RecoveryAnnouncedByMonitor ==
    /\ [][(Leaves("monitor", "after_apply") /\ ~exc["monitor"] /\ failed_reapply
             /\ subscribers # {}) =>
             /\ bcast' = [text |-> RecoveredText, percent |-> manual_speed,
                          changed |-> NoReadings, to |-> subscribers]
             /\ pc'["monitor"] = "broadcast"]_vars
    /\ [][Leaves("monitor", "broadcast") => ~failed_reapply']_vars
    /\ [][bcast'.text = RecoveredText =>
             (Leaves("monitor", "after_apply") /\ ~exc["monitor"] /\ failed_reapply)]_vars
    /\ [][(Leaves("update", "after_apply") \/ Leaves("default", "after_apply"))
             => bcast' = NoBcast]_vars

\* the recovery broadcast is out and its sends are awaited
C10_Witness ==
    /\ pc["monitor"] = "broadcast"
    /\ bcast.text = RecoveredText
    /\ bcast.percent = Some(100)
    /\ failed_reapply

\* C11: a tick that finds the policy auto goes straight to the fan poll: it runs no
\* enable, set-duty or disable command (the monitor runs commands only between its
\* "enable" and "set" points, which such a tick never enters), and neither its
\* first step nor its fan poll changes manual_speed, last_speed_push or
\* failed_reapply
C11_AutoTickDoesNothing ==
    /\ [][(Leaves("monitor", "idle") /\ IsNone(manual_speed)) =>
             /\ pc'["monitor"] = "sdr"
             /\ wire' = NoCmd
             /\ UNCHANGED <<manual_speed, last_speed_push, failed_reapply>>]_vars
    /\ [][Leaves("monitor", "sdr") =>
             /\ pc'["monitor"] = "idle"
             /\ wire' = NoCmd
             /\ UNCHANGED <<manual_speed, last_speed_push, failed_reapply>>]_vars
    /\ [][wire'.by = "monitor" =>
             (pc["monitor"] \in {"enable", "set"} /\ ~IsDisable(wire'.args))]_vars

\* a tick that found the policy auto is at its fan poll, with a subscriber, while
\* the override is enabled on the iDRAC: the tick has left it alone
C11_Witness ==
    /\ pc["monitor"] = "sdr"
    /\ IsNone(manual_speed)
    /\ IsNone(last_speed_push)
    /\ subscribers = {1}
    /\ ctl.static
    /\ pc["update"] = "idle"

\* C12: a failed re-assertion leaves last_speed_push as it was and the tick goes on
\* to its fan poll and ends, so the next tick starts; a tick that finds the policy
\* manual, the flag set and the last assertion old attempts the re-assertion
\* again; and if from some time on the iDRAC stays reachable and the policy stays
\* manual, then from some time on failed_reapply stays false
C12_FailedReassertionRetried ==
    /\ [][(Leaves("monitor", "after_apply") /\ exc["monitor"]) =>
             /\ last_speed_push' = last_speed_push
             /\ pc'["monitor"] = "sdr"]_vars
    /\ [][Leaves("monitor", "sdr") => pc'["monitor"] = "idle"]_vars
    /\ [][(Leaves("monitor", "idle") /\ ~IsNone(manual_speed) /\ failed_reapply /\ C7_Old)
             => pc'["monitor"] = "enable"]_vars
    /\ (<>[](reachable /\ ~IsNone(manual_speed))) => <>[]~failed_reapply

\* the retry after a failure has succeeded: its recovery broadcast is out while the
\* iDRAC is reachable and the policy still manual
C12_Witness ==
    /\ pc["monitor"] = "broadcast"
    /\ failed_reapply
    /\ reachable
    /\ manual_speed = Some(0)
    /\ last_speed_push = Some(now)

\* C13: the restarted process holds the policy recorded before the restart: at
\* once, or at the latest when its startup default, the one policy it can take up
\* without a new directive, is the policy recorded before
C13_PolicySurvivesRestart ==
    [][Restart => \/ manual_speed' = manual_speed
                  \/ config.default_manual_percent = manual_speed]_vars

\* the entries _diff_readings is to report: the fans of `new` that `old` lacks or
\* whose value differs from the old one by at least `threshold`
Reported(old, new, threshold) ==
    { name \in DOMAIN new :
        \/ name \notin DOMAIN old
        \/ new[name] - old[name] >= threshold
        \/ old[name] - new[name] >= threshold }

\* a poll of monitor_fans has ended with readings (it logged no failure)
PollSucceeds == Leaves("monitor", "sdr") /\ logged' # "Fan poll failed"

\* C14: the change set monitor_fans broadcasts, which is _diff_readings of the cached
\* snapshot, the new snapshot and notify_delta, holds exactly the entries
\* (name, new[name]) with name in new and either not in old or at least the
\* threshold away from old[name]; a fan only in old does not appear
C14_DiffExact ==
    [][(PollSucceeds /\ ~first_snapshot /\ subscribers # {}) =>
          LET old == last_readings
              new == last_readings'
              changed == bcast'.changed
          IN  /\ DOMAIN changed = Reported(old, new, config.notify_delta)
              /\ \A name \in DOMAIN changed : changed[name] = new[name]
              /\ DOMAIN changed \subseteq DOMAIN new]_vars

\* threshold 200, FAN1 now at 3200 and reported: with these outputs the cached
\* FAN1 was at 3000, exactly the threshold away
C14_Witness ==
    /\ config.notify_delta = 200
    /\ DOMAIN last_readings = {"FAN1"}
    /\ last_readings["FAN1"] = 3200
    /\ DOMAIN bcast.changed = {"FAN1"}
    /\ bcast.changed["FAN1"] = 3200

\* C15: a failed poll leaves the cache as it was and notifies nobody; the first
\* successful poll stores its snapshot and notifies nobody; a later successful
\* poll stores its snapshot in place of the cached one and broadcasts the fans
\* that changed against the cached one, if any, to the subscribers
C15_FirstSnapshotCached ==
    /\ [][(Leaves("monitor", "sdr") /\ logged' = "Fan poll failed") =>
             (last_readings' = last_readings /\ bcast' = NoBcast)]_vars
    /\ [][PollSucceeds =>
             /\ last_readings' # NoReadings
             /\ \E output \in sensors : last_readings' = parse_rows(output)]_vars
    /\ [][(PollSucceeds /\ last_readings = NoReadings) => bcast' = NoBcast]_vars
    /\ [][(PollSucceeds /\ last_readings # NoReadings) =>
             LET reported == Reported(last_readings, last_readings', config.notify_delta)
             IN  IF reported # {} /\ subscribers # {}
                 THEN /\ bcast'.text = "Fan speed change detected:"
                      /\ bcast'.to = subscribers
                      /\ DOMAIN bcast'.changed = reported
                 ELSE bcast' = NoBcast]_vars
    /\ [][last_readings' # last_readings => PollSucceeds]_vars

\* the first snapshot, two fans, has just been stored while there is a subscriber,
\* and nothing was broadcast
C15_Witness ==
    /\ last_readings # NoReadings
    /\ subscribers # {}
    /\ bcast = NoBcast
    /\ logged = ""
    /\ pc["monitor"] = "idle"
    /\ wire = NoCmd
    /\ reply = NoReply
    /\ DOMAIN last_readings = {"FAN1", "FAN2"}

AutoReply == <<"Fan control returned to iDRAC automatic mode.">>

\* C16: every /auto from an authorized chat runs the disable command, whatever the
\* recorded policy; when the iDRAC accepts it the caller gets the success reply,
\* manual_speed and last_speed_push are None and the other fields are as before,
\* so a second /auto leaves the recorded state exactly as the first left it
C16_SetAutoIdempotent ==
    /\ [][\A chat \in Chats :
             (cmd_auto(chat) /\ _is_authorized(chat)) => pc'["update"] = "disable"]_vars
    /\ [][Leaves("update", "disable") =>
             (wire'.by = "update" /\ IsDisable(wire'.args))]_vars
    /\ [][(Leaves("update", "after_disable") /\ ~exc["update"]) =>
             /\ reply' = AutoReply
             /\ manual_speed' = None
             /\ last_speed_push' = None
             /\ UNCHANGED <<failed_reapply, subscribers, last_readings>>]_vars
    /\ [][(Leaves("update", "after_disable") /\ ~exc["update"]
             /\ IsNone(manual_speed) /\ IsNone(last_speed_push)) =>
             (reply' = AutoReply /\ UNCHANGED bot)]_vars

\* the iDRAC has accepted the disable command of an /auto sent while the policy
\* was already auto and the override already off
C16_Witness ==
    /\ pc["update"] = "after_disable"
    /\ ~exc["update"]
    /\ wire = [args |-> disable_static_fan_control_args, ok |-> TRUE, by |-> "update"]
    /\ IsNone(manual_speed)
    /\ IsNone(last_speed_push)
    /\ subscribers = {1}
    /\ pc["monitor"] = "idle"

\* C17: a set-duty command is run only at the second point of apply_manual_speed,
\* which a call reaches only by its own accepted enable command; a refused enable
\* ends the call with IPMIError; and a call ends without IPMIError only by its own
\* accepted set-duty command
C17_EnableBeforeSet ==
    /\ [][\A p \in Procs :
             (wire'.by = p /\ IsSetDuty(wire'.args)) => pc[p] = "set"]_vars
    /\ [][\A p \in Procs :
             (pc'[p] = "set" /\ pc[p] # "set") =>
                /\ pc[p] = "enable"
                /\ wire' = [args |-> enable_static_fan_control_args, ok |-> TRUE, by |-> p]]_vars
    /\ [][\A p \in Procs :
             (Leaves(p, "enable") /\ ~wire'.ok) =>
                (pc'[p] = "after_apply" /\ exc'[p])]_vars
    /\ [][\A p \in Procs :
             (pc'[p] = "after_apply" /\ pc[p] # "after_apply" /\ ~exc'[p]) =>
                /\ pc[p] = "set"
                /\ wire'.by = p /\ wire'.ok /\ IsSetDuty(wire'.args)]_vars

\* an enable command of cmd_set_speed has been refused: the call has ended with
\* IPMIError and no set-duty command
C17_Witness ==
    /\ pc["update"] = "after_apply"
    /\ exc["update"]
    /\ wire = [args |-> enable_static_fan_control_args, ok |-> FALSE, by |-> "update"]

\* C18: neither step of /status runs a fan-control command or changes manual_speed,
\* last_speed_push, failed_reapply, last_readings or subscribers, whether the
\* sensor read succeeds or fails; while the query waits for the sensor read the
\* update handler runs no command
C18_StatusReadOnly ==
    /\ [][\A chat \in Chats : cmd_status(chat) => (wire' = NoCmd /\ UNCHANGED bot)]_vars
    /\ [][Leaves("update", "sdr") =>
             /\ wire' = NoCmd
             /\ ctl' = ctl
             /\ reply' # NoReply
             /\ UNCHANGED bot]_vars
    /\ [][pc["update"] = "sdr" => wire'.by # "update"]_vars

\* /status from a chat that is not subscribed has been answered with the readings
\* under a manual policy: there is still no subscriber
C18_Witness ==
    /\ reply # NoReply
    /\ reply[1] = "Fan readings:"
    /\ manual_speed = Some(100)
    /\ subscribers = {}
    /\ pc["update"] = "idle"

\* C19: manual_speed is None exactly when last_speed_push is None
C19_PolicyAndTimestampTogether ==
    IsNone(manual_speed) <=> IsNone(last_speed_push)

\* C20: with no handler or job under way and the policy auto, the override this
\* program enabled is not left enabled on the iDRAC
C20_NoOverrideUnderAuto ==
    (/\ pc["update"] = "idle"
     /\ pc["monitor"] = "idle"
     /\ pc["default"] = "done"
     /\ IsNone(manual_speed)) => ~ctl.static

====
